---------------------------- MODULE Spec2Model ----------------------------
(***************************************************************************)
(* Model of simple-arkworks/src/main.rs: two R1CS relation circuits        *)
(* (SumCircuit, CompareCircuit), the byte-to-field encoding (PrimeString)  *)
(* and the two proof-session drivers (prove_verify_sum,                    *)
(* prove_verify_starts_with) that run Groth16 setup -> prove -> verify.    *)
(*                                                                         *)
(* The constraint system (ark_relations ConstraintSystem) and the Groth16  *)
(* backend are library code the source calls; they are modelled by what    *)
(* the calls in main.rs do: allocation closures are evaluated only outside *)
(* setup mode, prove debug-asserts satisfiability, verify rejects a        *)
(* public-input vector of the wrong length with an error and accepts       *)
(* exactly a proof of a satisfied system for the vector it was made for.   *)
(***************************************************************************)
EXTENDS Integers, Sequences, FiniteSets, TLC

VARIABLES
    pc,        \* position of the program: idle, setup, prove, verify, done, panicked, synthesized
    call,      \* the driver call in progress and its arguments
    circuit,   \* the circuit instance built by the driver (or handed to a direct synthesis)
    keys,      \* (pk, vk) returned by circuit_specific_setup
    cs,        \* the constraint system of the latest synthesis
    synth,     \* result of the latest generate_constraints call and its mode
    proof,     \* the proof returned by prove
    verified,  \* what the driver's verify call returned
    steps,     \* backend calls attempted so far, in order
    failure,   \* the panic message once the program aborted
    probe,     \* a verify call on the session's proof with another public-input vector
    mainStep   \* 0: not in main, 1: main's first call, 2: main's second call

vars == <<pc, call, circuit, keys, cs, synth, proof, verified, steps, failure, probe, mainStep>>

---------------------------------------------------------------------------
(* Bounds of the model *)

\* u64 arguments of prove_verify_sum range over 0..MaxVal
MaxVal == 7

\* byte strings drawn for prove_verify_starts_with have at most MaxLen bytes
MaxLen == 3

\* the byte values strings are drawn from ('a', 'b'); main's literals come on top
Alphabet == {97, 98}

---------------------------------------------------------------------------
(* Field arithmetic: ark_bn254::Fr *)

\* The scalar field's modulus r. BN254's r has 254 bits; the model keeps a
\* prime field and scales r to the largest prime of TLC's integer
\* range (2^31 - 1). What the program uses of r is that u64 and byte values, and sums
\* of two of them, stay below it; that holds for every value drawn here.
FrModulus == 2^30 + (2^30 - 1)

\* From<u64> for Fr
FrFrom(n) == n % FrModulus

FrAdd(x, y) == (x + y) % FrModulus

FrOne == FrFrom(1)

---------------------------------------------------------------------------
(* Option<T> *)

Some(x) == [some |-> TRUE, val |-> x]

NoneF == [some |-> FALSE, val |-> 0]

NoneV == [some |-> FALSE, val |-> <<>>]

RECURSIVE SeqsUpTo(_, _)
SeqsUpTo(S, n) ==
    IF n = 0 THEN {<<>>}
    ELSE LET shorterOnes == SeqsUpTo(S, n - 1)
         IN  shorterOnes \cup {Append(s, x) : s \in {t \in shorterOnes : Len(t) = n - 1}, x \in S}

\* the byte strings a caller may pass (&'static str, as bytes)
Strings == SeqsUpTo(Alphabet, MaxLen)

\* "bad" and "bcdef", the literals of main
MainSmall == <<98, 97, 100>>

MainLarge == <<98, 99, 100, 101, 102>>

U64s == 0..MaxVal

---------------------------------------------------------------------------
(* ark_relations::r1cs::ConstraintSystem, as the circuits use it *)

\* ConstraintSystem::new() followed by set_mode: the constant One is
\* instance variable 0 with assignment 1. allocated is the history of the
\* variables handed out, in order (the library keeps only the two counters).
NewCS(mode) ==
    [mode |-> mode,
     num_instance_variables |-> 1,
     num_witness_variables |-> 0,
     instance_assignment |-> <<FrOne>>,
     witness_assignment |-> <<>>,
     constraints |-> <<>>,
     allocated |-> <<>>]

Variable(kind, index) == [kind |-> kind, index |-> index]

\* FpVar::new_input(cs, f): the variable is numbered first; the closure f
\* (here its Option source, or Some(val) for || Ok(val)) is evaluated only
\* when the system is not in setup mode
new_input(c, f) ==
    LET index == c.num_instance_variables
        c1 == [c EXCEPT !.num_instance_variables = @ + 1,
                        !.allocated = Append(@, Variable("Instance", index))]
    IN  IF c.mode = "Setup"
        THEN [err |-> "Ok", cs |-> c1, var |-> Variable("Instance", index)]
        ELSE IF ~f.some
        THEN [err |-> "AssignmentMissing", cs |-> c1, var |-> Variable("Instance", index)]
        ELSE [err |-> "Ok",
              cs |-> [c1 EXCEPT !.instance_assignment = Append(@, f.val)],
              var |-> Variable("Instance", index)]

\* FpVar::new_witness(cs, f)
new_witness(c, f) ==
    LET index == c.num_witness_variables
        c1 == [c EXCEPT !.num_witness_variables = @ + 1,
                        !.allocated = Append(@, Variable("Witness", index))]
    IN  IF c.mode = "Setup"
        THEN [err |-> "Ok", cs |-> c1, var |-> Variable("Witness", index)]
        ELSE IF ~f.some
        THEN [err |-> "AssignmentMissing", cs |-> c1, var |-> Variable("Witness", index)]
        ELSE [err |-> "Ok",
              cs |-> [c1 EXCEPT !.witness_assignment = Append(@, f.val)],
              var |-> Variable("Witness", index)]

\* x.enforce_equal(y) on two linear combinations (sequences of variables,
\* coefficient 1 each): the constraint (x - y) * One = 0
enforce_equal(c, x, y) ==
    [c EXCEPT !.constraints = Append(@, [plus |-> x, minus |-> y])]

\* the value the assignment gives a variable
ValueOf(c, v) ==
    IF v.kind = "Instance" THEN c.instance_assignment[v.index + 1]
    ELSE c.witness_assignment[v.index + 1]

RECURSIVE EvalLC(_, _)
EvalLC(c, lc) ==
    IF lc = <<>> THEN 0
    ELSE FrAdd(ValueOf(c, Head(lc)), EvalLC(c, Tail(lc)))

\* ConstraintSystem::is_satisfied: every constraint holds over the field
is_satisfied(c) ==
    \A i \in 1..Len(c.constraints) :
        EvalLC(c, c.constraints[i].plus) = EvalLC(c, c.constraints[i].minus)

\* what setup keeps of a synthesized system: its shape
Shape(c) ==
    [num_instance_variables |-> c.num_instance_variables,
     num_witness_variables |-> c.num_witness_variables,
     constraints |-> c.constraints]

---------------------------------------------------------------------------
(* The relation circuits *)

SumCircuit(a, b, c) ==
    [kind |-> "sum", a |-> a, b |-> b, c |-> c, shorter |-> NoneV, larger |-> NoneV]

CompareCircuit(shorter, larger) ==
    [kind |-> "compare", a |-> NoneF, b |-> NoneF, c |-> NoneF,
     shorter |-> shorter, larger |-> larger]

\* variant: the sum is built as a_var + a_var
SumCircuit_generate_constraints_double_a(self, cs0) ==
    LET ra == new_witness(cs0, self.a)
    IN  IF ra.err # "Ok" THEN [result |-> ra.err, cs |-> ra.cs]
        ELSE
    LET rb == new_witness(ra.cs, self.b)
    IN  IF rb.err # "Ok" THEN [result |-> rb.err, cs |-> rb.cs]
        ELSE
    LET rc == new_input(rb.cs, self.c)
    IN  IF rc.err # "Ok" THEN [result |-> rc.err, cs |-> rc.cs]
        ELSE
    LET sum == <<ra.var, ra.var>>
    IN  [result |-> "Ok", cs |-> enforce_equal(rc.cs, sum, <<rc.var>>)]

\* variant: the enforce_equal call is left out
SumCircuit_generate_constraints_unconstrained(self, cs0) ==
    LET ra == new_witness(cs0, self.a)
    IN  IF ra.err # "Ok" THEN [result |-> ra.err, cs |-> ra.cs]
        ELSE
    LET rb == new_witness(ra.cs, self.b)
    IN  IF rb.err # "Ok" THEN [result |-> rb.err, cs |-> rb.cs]
        ELSE
    LET rc == new_input(rb.cs, self.c)
    IN  IF rc.err # "Ok" THEN [result |-> rc.err, cs |-> rc.cs]
        ELSE [result |-> "Ok", cs |-> rc.cs]

\* variant: c is read with unwrap_or_default() instead of ok_or(AssignmentMissing)
SumCircuit_generate_constraints_default_c(self, cs0) ==
    LET ra == new_witness(cs0, self.a)
    IN  IF ra.err # "Ok" THEN [result |-> ra.err, cs |-> ra.cs]
        ELSE
    LET rb == new_witness(ra.cs, self.b)
    IN  IF rb.err # "Ok" THEN [result |-> rb.err, cs |-> rb.cs]
        ELSE
    LET rc == new_input(rb.cs, Some(IF self.c.some THEN self.c.val ELSE 0))
        sum == <<ra.var, rb.var>>
    IN  [result |-> "Ok", cs |-> enforce_equal(rc.cs, sum, <<rc.var>>)]

\* impl ConstraintSynthesizer for SumCircuit
SumCircuit_generate_constraints(self, cs0) ==
    LET ra == new_witness(cs0, self.a)
    IN  IF ra.err # "Ok" THEN [result |-> ra.err, cs |-> ra.cs]
        ELSE
    LET rb == new_witness(ra.cs, self.b)
    IN  IF rb.err # "Ok" THEN [result |-> rb.err, cs |-> rb.cs]
        ELSE
    LET rc == new_input(rb.cs, self.c)
    IN  IF rc.err # "Ok" THEN [result |-> rc.err, cs |-> rc.cs]
        ELSE
    LET sum == <<ra.var, rb.var>>
    IN  [result |-> "Ok", cs |-> enforce_equal(rc.cs, sum, <<rc.var>>)]

\* Iterator::take(n)
Take(s, n) == SubSeq(s, 1, IF n < Len(s) THEN n ELSE Len(s))

\* shorter.iter().map(|&val| FpVar::new_input(cs, || Ok(val))).collect()
RECURSIVE AllocInputs(_, _, _)
AllocInputs(c, vals, acc) ==
    IF vals = <<>> THEN [cs |-> c, vars |-> acc]
    ELSE LET r == new_input(c, Some(Head(vals)))
         IN  AllocInputs(r.cs, Tail(vals), Append(acc, r.var))

\* larger.iter().take(n).map(|&val| FpVar::new_witness(cs, || Ok(val))).collect()
RECURSIVE AllocWitnesses(_, _, _)
AllocWitnesses(c, vals, acc) ==
    IF vals = <<>> THEN [cs |-> c, vars |-> acc]
    ELSE LET r == new_witness(c, Some(Head(vals)))
         IN  AllocWitnesses(r.cs, Tail(vals), Append(acc, r.var))

\* variant: larger_var.enforce_equal(larger_var)
RECURSIVE EnforceZip_self(_, _, _)
EnforceZip_self(c, shorter_vars, larger_vars) ==
    IF shorter_vars = <<>> \/ larger_vars = <<>> THEN c
    ELSE EnforceZip_self(enforce_equal(c, <<Head(larger_vars)>>, <<Head(larger_vars)>>),
                         Tail(shorter_vars), Tail(larger_vars))

\* for (shorter_var, larger_var) in shorter_vars.iter().zip(larger_vars.iter())
RECURSIVE EnforceZip(_, _, _)
EnforceZip(c, shorter_vars, larger_vars) ==
    IF shorter_vars = <<>> \/ larger_vars = <<>> THEN c
    ELSE EnforceZip(enforce_equal(c, <<Head(larger_vars)>>, <<Head(shorter_vars)>>),
                    Tail(shorter_vars), Tail(larger_vars))

\* variant: the length check reads shorter.len() >= larger.len()
CompareCircuit_generate_constraints_ge(self, cs0) ==
    IF ~self.shorter.some THEN [result |-> "AssignmentMissing", cs |-> cs0]
    ELSE IF ~self.larger.some THEN [result |-> "AssignmentMissing", cs |-> cs0]
    ELSE
    LET shorter == self.shorter.val
        larger == self.larger.val
    IN  IF Len(shorter) >= Len(larger) THEN [result |-> "Unsatisfiable", cs |-> cs0]
        ELSE
    LET pub == AllocInputs(cs0, shorter, <<>>)
        wit == AllocWitnesses(pub.cs, Take(larger, Len(shorter)), <<>>)
    IN  [result |-> "Ok", cs |-> EnforceZip(wit.cs, pub.vars, wit.vars)]

\* variant: the length check is left out
CompareCircuit_generate_constraints_no_length_check(self, cs0) ==
    IF ~self.shorter.some THEN [result |-> "AssignmentMissing", cs |-> cs0]
    ELSE IF ~self.larger.some THEN [result |-> "AssignmentMissing", cs |-> cs0]
    ELSE
    LET shorter == self.shorter.val
        larger == self.larger.val
        pub == AllocInputs(cs0, shorter, <<>>)
        wit == AllocWitnesses(pub.cs, Take(larger, Len(shorter)), <<>>)
    IN  [result |-> "Ok", cs |-> EnforceZip(wit.cs, pub.vars, wit.vars)]

\* variant: .take(shorter.len()) is left out, every element of larger is allocated
CompareCircuit_generate_constraints_no_take(self, cs0) ==
    IF ~self.shorter.some THEN [result |-> "AssignmentMissing", cs |-> cs0]
    ELSE IF ~self.larger.some THEN [result |-> "AssignmentMissing", cs |-> cs0]
    ELSE
    LET shorter == self.shorter.val
        larger == self.larger.val
    IN  IF Len(shorter) > Len(larger) THEN [result |-> "Unsatisfiable", cs |-> cs0]
        ELSE
    LET pub == AllocInputs(cs0, shorter, <<>>)
        wit == AllocWitnesses(pub.cs, larger, <<>>)
    IN  [result |-> "Ok", cs |-> EnforceZip(wit.cs, pub.vars, wit.vars)]

\* impl ConstraintSynthesizer for CompareCircuit
CompareCircuit_generate_constraints(self, cs0) ==
    IF ~self.shorter.some THEN [result |-> "AssignmentMissing", cs |-> cs0]
    ELSE IF ~self.larger.some THEN [result |-> "AssignmentMissing", cs |-> cs0]
    ELSE
    LET shorter == self.shorter.val
        larger == self.larger.val
    IN  IF Len(shorter) > Len(larger) THEN [result |-> "Unsatisfiable", cs |-> cs0]
        ELSE
    LET pub == AllocInputs(cs0, shorter, <<>>)
        wit == AllocWitnesses(pub.cs, Take(larger, Len(shorter)), <<>>)
    IN  [result |-> "Ok", cs |-> EnforceZip(wit.cs, pub.vars, wit.vars)]

\* dispatch of ConstraintSynthesizer::generate_constraints on the circuit type
generate_constraints(self, cs0) ==
    IF self.kind = "sum" THEN SumCircuit_generate_constraints(self, cs0)
    ELSE CompareCircuit_generate_constraints(self, cs0)

---------------------------------------------------------------------------
(* The field encoding helper *)

\* variant: the last byte is not converted
PrimeString_from_short(value) ==
    [field0 |-> [i \in 1..(Len(value) - 1) |-> FrFrom(value[i])]]

\* impl From<&'static str> for PrimeString<F>: one field element per byte
PrimeString_from(value) ==
    [field0 |-> [i \in 1..Len(value) |-> FrFrom(value[i])]]

\* impl From<PrimeString<F>> for Vec<F>
Vec_from(value) == value.field0

---------------------------------------------------------------------------
(* ark_groth16::Groth16, as the drivers call it *)

NoKeys == [ok |-> FALSE, shape |-> Shape(NewCS("Setup"))]

NoProof == [made |-> FALSE, valid |-> FALSE, shape |-> Shape(NewCS("Setup")), instance |-> <<>>]

NoSynth == [mode |-> "none", result |-> "none"]

NoProbe == [made |-> FALSE, input |-> <<>>, result |-> "none"]

\* Groth16::circuit_specific_setup(circuit, rng): synthesizes in setup mode;
\* a synthesis error is returned, otherwise the keys fix the circuit's shape
circuit_specific_setup(circ) ==
    LET r == generate_constraints(circ, NewCS("Setup"))
    IN  [result |-> r.result, cs |-> r.cs,
         keys |-> IF r.result = "Ok" THEN [ok |-> TRUE, shape |-> Shape(r.cs)] ELSE NoKeys]

\* Groth16::prove(&pk, circuit, rng): synthesizes in prove mode; a synthesis
\* error is returned; the proof is one of the statement (shape, instance
\* assignment) and is valid exactly when the assignment satisfies the system
prove(pk, circ) ==
    LET r == generate_constraints(circ, NewCS("Prove"))
    IN  [result |-> r.result, cs |-> r.cs,
         proof |-> IF r.result = "Ok"
                   THEN [made |-> TRUE, valid |-> is_satisfied(r.cs) /\ Shape(r.cs) = pk.shape,
                         shape |-> Shape(r.cs), instance |-> r.cs.instance_assignment]
                   ELSE NoProof]

\* Groth16::verify(&vk, public_input, &proof): an input vector of the wrong
\* length is an error (MalformedVerifyingKey); otherwise true exactly for a
\* valid proof of the statement with this public input
verify(vk, public_input, prf) ==
    IF Len(public_input) + 1 # vk.shape.num_instance_variables
    THEN "MalformedVerifyingKey"
    ELSE IF prf.valid /\ prf.shape = vk.shape /\ prf.instance = <<FrOne>> \o public_input
    THEN "true"
    ELSE "false"

---------------------------------------------------------------------------
(* The proof session drivers *)

NoCall == [fn |-> "none", a |-> 0, b |-> 0, c |-> 0, small |-> <<>>, large |-> <<>>]

NoCircuit == [kind |-> "none", a |-> NoneF, b |-> NoneF, c |-> NoneF,
              shorter |-> NoneV, larger |-> NoneV]

\* lines 78-82: the circuit prove_verify_sum builds
SumCircuitOf(a, b, c) == SumCircuit(Some(FrFrom(a)), Some(FrFrom(b)), Some(FrFrom(c)))

\* lines 115-121: the circuit prove_verify_starts_with builds
CompareCircuitOf(small, large) ==
    LET larger_array == PrimeString_from(large)
        shorter_array == PrimeString_from(small)
    IN  CompareCircuit(Some(Vec_from(shorter_array)), Some(Vec_from(larger_array)))

\* variant: the drivers pass the witness side (a, the larger sequence)
PublicInputOf_witness(cl) ==
    IF cl.fn = "prove_verify_sum" THEN <<FrFrom(cl.a)>>
    ELSE Vec_from(PrimeString_from(cl.large))

\* the public input vector the driver hands to verify (line 87, line 128)
PublicInputOf(cl) ==
    IF cl.fn = "prove_verify_sum" THEN <<FrFrom(cl.c)>>
    ELSE Vec_from(PrimeString_from(cl.small))

Enter(cl, circ, m) ==
    /\ pc' = "setup"
    /\ call' = cl
    /\ circuit' = circ
    /\ keys' = NoKeys
    /\ cs' = NewCS("Setup")
    /\ synth' = NoSynth
    /\ proof' = NoProof
    /\ verified' = "none"
    /\ steps' = <<>>
    /\ failure' = "none"
    /\ probe' = NoProbe
    /\ mainStep' = m

\* a call of prove_verify_sum(a, b, c)
prove_verify_sum(a, b, c) ==
    /\ pc = "idle"
    /\ Enter([NoCall EXCEPT !.fn = "prove_verify_sum", !.a = a, !.b = b, !.c = c],
             SumCircuitOf(a, b, c), 0)

\* a call of prove_verify_starts_with(small, large)
prove_verify_starts_with(small, large) ==
    /\ pc = "idle"
    /\ Enter([NoCall EXCEPT !.fn = "prove_verify_starts_with", !.small = small, !.large = large],
             CompareCircuitOf(small, large), 0)

\* line 85 / line 125: circuit_specific_setup(circuit.clone(), rng).unwrap()
SetupStep ==
    /\ pc = "setup"
    /\ LET r == circuit_specific_setup(circuit)
       IN  /\ steps' = Append(steps, "setup")
           /\ cs' = r.cs
           /\ synth' = [mode |-> "Setup", result |-> r.result]
           /\ keys' = r.keys
           /\ IF r.result = "Ok"
              THEN pc' = "prove" /\ failure' = failure
              ELSE pc' = "panicked" /\ failure' = "unwrap"
    /\ UNCHANGED <<call, circuit, proof, verified, probe, mainStep>>

\* line 86 / line 126: prove(&pk, circuit, rng).expect("proof"). On an
\* unsatisfied system a build with debug assertions panics inside prove,
\* a build without them returns a proof (which is not valid).
ProveStep ==
    /\ pc = "prove"
    /\ LET r == prove(keys, circuit)
       IN  /\ steps' = Append(steps, "prove")
           /\ cs' = r.cs
           /\ synth' = [mode |-> "Prove", result |-> r.result]
           /\ \/ /\ r.result # "Ok"
                 /\ pc' = "panicked" /\ failure' = "proof" /\ proof' = NoProof
              \/ /\ r.result = "Ok"
                 /\ pc' = "verify" /\ failure' = failure /\ proof' = r.proof
              \/ /\ r.result = "Ok" /\ ~is_satisfied(r.cs)
                 /\ pc' = "panicked" /\ failure' = "debug_assert" /\ proof' = NoProof
    /\ UNCHANGED <<call, circuit, keys, verified, probe, mainStep>>

\* lines 87-90 / lines 127-130: verify(..).expect("verified"); assert!(verified)
VerifyStep ==
    /\ pc = "verify"
    /\ LET v == verify(keys, PublicInputOf(call), proof)
       IN  /\ steps' = Append(steps, "verify")
           /\ verified' = v
           /\ IF v = "true" THEN pc' = "done" /\ failure' = failure
              ELSE IF v = "false" THEN pc' = "panicked" /\ failure' = "this can't be verified"
              ELSE pc' = "panicked" /\ failure' = "verified"
    /\ UNCHANGED <<call, circuit, keys, cs, synth, proof, probe, mainStep>>

\* fn main, line 134: prove_verify_sum(3, 4, 7)
main_first ==
    /\ pc = "idle"
    /\ Enter([NoCall EXCEPT !.fn = "prove_verify_sum", !.a = 3, !.b = 4, !.c = 7],
             SumCircuitOf(3, 4, 7), 1)

\* fn main, line 135: prove_verify_starts_with("bad", "bcdef"), reached
\* when the first call returned
main_second ==
    /\ pc = "done"
    /\ mainStep = 1
    /\ Enter([NoCall EXCEPT !.fn = "prove_verify_starts_with",
                            !.small = MainSmall, !.large = MainLarge],
             CompareCircuitOf(MainSmall, MainLarge), 2)

---------------------------------------------------------------------------
(* Synthesis of a circuit instance on its own, and a verifier's own call *)

OptionalFields == {NoneF} \cup {Some(FrFrom(x)) : x \in U64s}

OptionalVecs == {NoneV} \cup {Some(Vec_from(PrimeString_from(s))) : s \in Strings}

CircuitInstances ==
    {SumCircuit(a, b, c) : a \in OptionalFields, b \in OptionalFields, c \in OptionalFields}
    \cup {CompareCircuit(sh, lg) : sh \in OptionalVecs, lg \in OptionalVecs}

\* circ.generate_constraints(cs) on a fresh constraint system in the given mode
Synthesize(circ, mode) ==
    /\ pc = "idle"
    /\ LET r == generate_constraints(circ, NewCS(mode))
       IN  /\ cs' = r.cs
           /\ synth' = [mode |-> mode, result |-> r.result]
    /\ pc' = "synthesized"
    /\ call' = [NoCall EXCEPT !.fn = "generate_constraints"]
    /\ circuit' = circ
    /\ UNCHANGED <<keys, proof, verified, steps, failure, probe, mainStep>>

\* the public-input vectors a verifier may try on the session's proof
ProbeInputs ==
    IF call.fn = "prove_verify_sum"
    THEN SeqsUpTo({FrFrom(x) : x \in U64s}, 2)
    ELSE SeqsUpTo({FrFrom(x) : x \in Alphabet}, MaxLen + 1)

\* Groth16::verify(&vk, x, &proof) with the session's key and proof
VerifyWith(x) ==
    /\ pc = "verify"
    /\ ~probe.made
    /\ probe' = [made |-> TRUE, input |-> x, result |-> verify(keys, x, proof)]
    /\ UNCHANGED <<pc, call, circuit, keys, cs, synth, proof, verified, steps, failure, mainStep>>

---------------------------------------------------------------------------

Init ==
    /\ pc = "idle"
    /\ call = NoCall
    /\ circuit = NoCircuit
    /\ keys = NoKeys
    /\ cs = NewCS("Setup")
    /\ synth = NoSynth
    /\ proof = NoProof
    /\ verified = "none"
    /\ steps = <<>>
    /\ failure = "none"
    /\ probe = NoProbe
    /\ mainStep = 0

\* the guards of the calls are repeated ahead of the choice of their inputs
Next ==
    \/ pc = "idle" /\ \E a \in U64s, b \in U64s, c \in U64s : prove_verify_sum(a, b, c)
    \/ pc = "idle" /\ \E small \in Strings, large \in Strings : prove_verify_starts_with(small, large)
    \/ SetupStep
    \/ ProveStep
    \/ VerifyStep
    \/ main_first
    \/ main_second
    \/ pc = "idle" /\ \E circ \in CircuitInstances, mode \in {"Setup", "Prove"} : Synthesize(circ, mode)
    \/ pc = "verify" /\ ~probe.made /\ \E x \in ProbeInputs : VerifyWith(x)

Spec == Init /\ [][Next]_vars

---------------------------------------------------------------------------
(* Properties *)

InSum == call.fn = "prove_verify_sum"

InCompare == call.fn = "prove_verify_starts_with"

InSynthesis == call.fn = "generate_constraints"

\* small's bytes equal large's first Len(small) bytes
IsPrefix(small, large) ==
    /\ Len(small) <= Len(large)
    /\ \A i \in 1..Len(small) : small[i] = large[i]

\* a session that ran setup, prove and verify without failure and whose
\* verify returned true, as far as it has got
SessionSucceeds ==
    /\ pc # "panicked"
    /\ failure = "none"
    /\ (pc \in {"prove", "verify", "done"} => keys.ok /\ synth.result = "Ok")
    /\ (pc \in {"verify", "done"} => proof.made /\ proof.valid /\ is_satisfied(cs))
    /\ (pc = "done" => verified = "true" /\ steps = <<"setup", "prove", "verify">>)
    /\ (pc # "done" => verified = "none")

\* C1 (sum completeness): a call prove_verify_sum(a, b, c) with a + b = c
\* never fails in setup, prove or verify, and when it has finished verify
\* returned true.
SumCompleteness ==
    (InSum /\ call.a + call.b = call.c) => SessionSucceeds

SumCompletenessWitness ==
    /\ InSum /\ call.a > 0 /\ call.b > 0 /\ call.a + call.b = call.c
    /\ pc = "done" /\ verified = "true"

\* C2 (sum soundness): a call prove_verify_sum(a, b, c) with a + b # c
\* synthesizes successfully (a, b witnesses, c the public input, the one
\* constraint a + b = c), the assignment violates the constraint, and the
\* session never ends with verify returning true: it aborts in prove or on
\* a false verification.
SumSoundness ==
    (InSum /\ call.a + call.b # call.c) =>
        /\ pc # "done"
        /\ verified \in {"none", "false"}
        /\ (synth.mode # "none" => synth.result = "Ok")
        /\ (synth.mode # "none" =>
                /\ cs.allocated = <<Variable("Witness", 0), Variable("Witness", 1),
                                    Variable("Instance", 1)>>
                /\ cs.constraints =
                       <<[plus |-> <<Variable("Witness", 0), Variable("Witness", 1)>>,
                          minus |-> <<Variable("Instance", 1)>>]>>)
        /\ (synth.mode = "Prove" =>
                /\ cs.witness_assignment = <<FrFrom(call.a), FrFrom(call.b)>>
                /\ cs.instance_assignment = <<FrOne, FrFrom(call.c)>>
                /\ ~is_satisfied(cs))
        /\ (pc = "verify" => proof.made /\ ~proof.valid)
        /\ (pc = "panicked" =>
                \/ failure = "debug_assert" /\ steps = <<"setup", "prove">>
                \/ failure = "this can't be verified" /\ verified = "false")

SumSoundnessWitness ==
    /\ InSum /\ call.a + call.b # call.c
    /\ pc = "panicked" /\ verified = "false" /\ failure = "this can't be verified"

\* C3 (prefix completeness): a call prove_verify_starts_with(small, large)
\* where small's bytes are large's first Len(small) bytes (the empty small
\* and small = large included) never fails in setup, prove or verify, and
\* when it has finished verify returned true.
PrefixCompleteness ==
    (InCompare /\ IsPrefix(call.small, call.large)) => SessionSucceeds

PrefixCompletenessWitness ==
    /\ InCompare /\ IsPrefix(call.small, call.large)
    /\ Len(call.small) >= 2 /\ Len(call.large) > Len(call.small)
    /\ pc = "done" /\ verified = "true"

\* C4 (length precondition): with both sequences present and shorter longer
\* than larger, synthesis returns Unsatisfiable and leaves the constraint
\* system as it was created; a session with such a pair aborts in setup,
\* and neither prove nor verify is attempted.
LengthPrecondition ==
    /\ (/\ circuit.kind = "compare" /\ circuit.shorter.some /\ circuit.larger.some
        /\ Len(circuit.shorter.val) > Len(circuit.larger.val)
        /\ synth.mode # "none")
       => (synth.result = "Unsatisfiable" /\ cs = NewCS(synth.mode))
    /\ (InCompare /\ Len(call.small) > Len(call.large) /\ pc # "setup")
       => /\ pc = "panicked" /\ failure = "unwrap"
          /\ steps = <<"setup">>
          /\ ~keys.ok /\ ~proof.made /\ verified = "none"

LengthPreconditionWitness ==
    /\ InCompare /\ Len(call.small) > Len(call.large) /\ Len(call.large) > 0
    /\ pc = "panicked" /\ synth.result = "Unsatisfiable"

\* some required input of the circuit instance is absent
InputAbsent ==
    \/ circuit.kind = "sum" /\ (~circuit.a.some \/ ~circuit.b.some \/ ~circuit.c.some)
    \/ circuit.kind = "compare" /\ (~circuit.shorter.some \/ ~circuit.larger.some)

AllocatedPublicInput == Tail(cs.instance_assignment)

\* C6 as stated (public-input integrity): verifying the session's proof
\* with a vector that differs from the allocated one in position, value or
\* length returns false.
PublicInputIntegrityAsStated ==
    (probe.made /\ probe.input # AllocatedPublicInput) => probe.result = "false"

\* C6 as amended: the vector the driver passes is the one the circuit
\* allocated ([c]; the shorter sequence in order); verifying the session's
\* proof with a vector that differs from it never returns true: a vector
\* of the same length returns false, a vector of another length makes
\* verify fail with an error; a valid proof verifies with the allocated
\* vector and with no other.
PublicInputIntegrity ==
    /\ (pc \in {"verify", "done"} \/ failure = "this can't be verified")
       => AllocatedPublicInput = PublicInputOf(call)
    /\ (probe.made /\ probe.input # AllocatedPublicInput) =>
          /\ probe.result # "true"
          /\ (Len(probe.input) = Len(AllocatedPublicInput) => probe.result = "false")
          /\ (Len(probe.input) # Len(AllocatedPublicInput)
                 => probe.result = "MalformedVerifyingKey")
    /\ (probe.made /\ probe.input = AllocatedPublicInput)
       => (probe.result = "true" <=> proof.valid)
    /\ (pc = "done" => verified = "true" /\ proof.valid)

PublicInputIntegrityWitness ==
    /\ InCompare /\ probe.made /\ proof.valid
    /\ Len(probe.input) = Len(AllocatedPublicInput)
    /\ Len(probe.input) >= 2
    /\ Cardinality({i \in 1..Len(probe.input) : probe.input[i] # AllocatedPublicInput[i]}) = 1
    /\ probe.result = "false"
    /\ pc = "done"

\* C7 (AssignmentMissing only on the prover's path): no synthesis in setup
\* mode, of the sum circuit or of the comparison circuit, returns
\* AssignmentMissing.
AssignmentMissingOnlyWhenProving ==
    synth.result = "AssignmentMissing" => synth.mode = "Prove"

\* the byte strings of this model
AllStrings == Strings \cup {MainSmall, MainLarge}

\* the sequence is the encoding of the byte string: same length, the i-th
\* element the field element of the i-th byte, and no other byte string has it
EncodingOf(vec, str) ==
    /\ Len(vec) = Len(str)
    /\ \A i \in 1..Len(str) : vec[i] = FrFrom(str[i]) /\ vec[i] = str[i]
    /\ \A t \in AllStrings : Vec_from(PrimeString_from(t)) = vec => t = str

\* C8 (encoding): the sequences prove_verify_starts_with builds from its
\* byte strings have the strings' lengths, hold the field element of each
\* byte in order, and are the encoding of no other byte string.
Encoding ==
    InCompare =>
        /\ circuit.shorter.some /\ EncodingOf(circuit.shorter.val, call.small)
        /\ circuit.larger.some /\ EncodingOf(circuit.larger.val, call.large)

EncodingWitness ==
    /\ InCompare /\ Len(call.small) >= 2 /\ call.small[1] # call.small[2]
    /\ circuit.shorter.val = call.small

\* the constraint system of a successful synthesis of the comparison circuit
CompareShapeOk(sh, lg, c) ==
    LET n == Len(sh)
    IN  /\ c.num_instance_variables = n + 1
        /\ c.num_witness_variables = n
        /\ c.allocated = [i \in 1..(2 * n) |->
                             IF i <= n THEN Variable("Instance", i)
                             ELSE Variable("Witness", i - n - 1)]
        /\ c.constraints = [i \in 1..n |->
                               [plus |-> <<Variable("Witness", i - 1)>>,
                                minus |-> <<Variable("Instance", i)>>]]
        /\ (c.mode = "Prove" =>
               /\ c.instance_assignment = <<FrOne>> \o sh
               /\ c.witness_assignment = SubSeq(lg, 1, n))

\* C9 (prefix circuit shape, suffix independence): a successful synthesis
\* of the comparison circuit allocates Len(shorter) public inputs
\* (shorter in order), then Len(shorter) witnesses (the first Len(shorter)
\* elements of larger), and adds Len(shorter) constraints, the i-th
\* equating witness i with public input i; any larger sequence with the
\* same first Len(shorter) elements gives the same constraint system.
PrefixShape ==
    (circuit.kind = "compare" /\ synth.result = "Ok") =>
        /\ CompareShapeOk(circuit.shorter.val, circuit.larger.val, cs)
        /\ \A t \in AllStrings :
              LET lg2 == Vec_from(PrimeString_from(t))
                  n == Len(circuit.shorter.val)
              IN  (Len(lg2) >= n /\ SubSeq(lg2, 1, n) = SubSeq(circuit.larger.val, 1, n))
                  => generate_constraints(CompareCircuit(circuit.shorter, Some(lg2)),
                                          NewCS(synth.mode))
                     = [result |-> "Ok", cs |-> cs]

PrefixShapeWitness ==
    /\ circuit.kind = "compare" /\ synth.result = "Ok" /\ synth.mode = "Prove"
    /\ Len(circuit.shorter.val) = 2 /\ Len(circuit.larger.val) = 3
    /\ Len(cs.constraints) = 2 /\ Len(cs.witness_assignment) = 2

\* C10 (prefix soundness): a call prove_verify_starts_with(small, large)
\* ends with verify returning true only if small is a prefix of large; for
\* a pair of fitting lengths that differs at an index of small, synthesis
\* succeeds, a constraint is violated and the session ends in a failure;
\* so does main's call with ("bad", "bcdef").
PrefixSoundness ==
    /\ (InCompare /\ (pc = "done" \/ verified = "true"))
       => IsPrefix(call.small, call.large)
    /\ (/\ InCompare /\ Len(call.small) <= Len(call.large)
        /\ \E i \in 1..Len(call.small) : call.small[i] # call.large[i])
       => /\ (synth.mode # "none" => synth.result = "Ok")
          /\ (synth.mode = "Prove" => ~is_satisfied(cs))
          /\ (pc = "verify" => proof.made /\ ~proof.valid)
          /\ verified \in {"none", "false"}
          /\ pc \in {"setup", "prove", "verify", "panicked"}
          /\ (pc = "panicked" => failure \in {"debug_assert", "this can't be verified"})
    /\ (mainStep = 2 => /\ call.small = MainSmall /\ call.large = MainLarge
                        /\ pc # "done")

PrefixSoundnessWitness ==
    /\ mainStep = 2
    /\ pc = "panicked" /\ failure = "this can't be verified" /\ verified = "false"

=============================================================================
